---- MODULE Spec2Model ----
(***************************************************************************)
(* A model of src/holdem.py: PokerDecisionModel, the heads-up hand         *)
(* simulator (start_hand, optimal_action, execute_action, update_stage,    *)
(* simulate_hand) and its pure helpers (opponent_response,                 *)
(* estimate_equity, calculate_ev).                                         *)
(*                                                                         *)
(* Numbers.  The source computes in Python floats.  Here every chip        *)
(* amount (pot, stacks, bet sizes) is an integer number of hundredths of   *)
(* a big blind (BB == 100 units); a product such as pot * 0.4 is taken to  *)
(* the unit below, where the source rounds to the last place of a double.  *)
(* Probabilities are hundredths, equities are 1/6000ths, and an expected   *)
(* value is a mixed number q + r/EvDen of chip units, so that the sums of  *)
(* calculate_ev are exact.                                                 *)
(*                                                                         *)
(* Cards are sequences of one-character strings, <<rank, suit>>; the suit  *)
(* symbols of the source are written "s", "h", "d", "c".                   *)
(***************************************************************************)
EXTENDS Integers, Sequences, FiniteSets, TLC

VARIABLES
    pc,                 \* where the caller / simulate_hand stands
    hands_started,      \* how many times start_hand has been called on the object
    opponent_type,      \* self.opponent_type
    stage,              \* self.stage
    pot,                \* self.pot
    hero_stack,         \* self.hero_stack
    villain_stack,      \* self.villain_stack
    hole_cards,         \* self.hole_cards
    history,            \* self.history
    initial_stack,      \* self.initial_stack
    last_bet_amount,    \* self.last_bet_amount
    decision_tree,      \* self.decision_tree
    decision_evs,       \* self.decision_evs
    action,             \* simulate_hand: action chosen by optimal_action
    bet_size,           \* simulate_hand: bet_size chosen by optimal_action
    bet_amount,         \* execute_action: call_amount / bet_amount of the hero
    resp,               \* execute_action: sampled villain response
    resp_amount,        \* execute_action: resp_amount
    total_decision_ev,  \* simulate_hand: total_decision_ev
    decision_count,     \* simulate_hand: decision_count
    result,             \* <<>> or the tuple simulate_hand returned
    call,               \* <<>> or the latest direct call: method name, arguments
    ret                 \* <<>> or <<value>> that a pure call returned / "raised"

object == <<opponent_type, stage, pot, hero_stack, villain_stack, hole_cards,
            history, initial_stack, last_bet_amount, decision_tree, decision_evs>>
locals == <<action, bet_size, bet_amount, resp, resp_amount,
            total_decision_ev, decision_count, result>>
probe  == <<call, ret>>
vars   == <<pc, hands_started, object, locals, probe>>

-----------------------------------------------------------------------------
(* Units *)

BB == 10 * 10                    \* chip units per big blind
Half == BB \div 2                \* 0.5 BB
EqDen == 600 * 10                  \* an equity e stands for e / 6000
EvDen == 100 * EqDen             \* an EV <<q, r>> stands for q + r / EvDen units

Min(a, b) == IF a <= b THEN a ELSE b
Max(a, b) == IF a >= b THEN a ELSE b
Abs(a) == IF a >= 0 THEN a ELSE -a

\* x * (k / 10), to the unit below
Tenths(x, k) == (x * k) \div 10

\* the exact value n / d of chip units, d a divisor of EvDen
EvFrac(n, d) == [q |-> n \div d, r |-> (n % d) * (EvDen \div d)]
EvZero == [q |-> 0, r |-> 0]
EvAdd(a, b) ==
    [q |-> a.q + b.q + ((a.r + b.r) \div EvDen), r |-> (a.r + b.r) % EvDen]

-----------------------------------------------------------------------------
(* Enumerations *)

PlayerType == {"TIGHT_PASSIVE", "LOOSE_AGGRESSIVE", "SCAREDY_CAT"}
GameStage  == {"PREFLOP", "FLOP", "TURN", "RIVER", "SHOWDOWN", "TERMINAL"}
ActionType == {"FOLD", "CHECK", "CALL", "BET", "RAISE", "ALL_IN"}

\* GameStage values
StageValue(s) ==
    CASE s = "PREFLOP"  -> 0
      [] s = "FLOP"     -> 1
      [] s = "TURN"     -> 2
      [] s = "RIVER"    -> 3
      [] s = "SHOWDOWN" -> 4
      [] OTHER          -> 5

\* mutant: the FLOP rung of the ladder set to RIVER
NextStage_skip(s) ==
    CASE s = "PREFLOP" -> "FLOP"
      [] s = "FLOP"    -> "RIVER"
      [] s = "TURN"    -> "RIVER"
      [] s = "RIVER"   -> "SHOWDOWN"
      [] OTHER         -> s

\* the ladder both branches of update_stage climb
NextStage(s) ==
    CASE s = "PREFLOP" -> "FLOP"
      [] s = "FLOP"    -> "TURN"
      [] s = "TURN"    -> "RIVER"
      [] s = "RIVER"   -> "SHOWDOWN"
      [] OTHER         -> s

-----------------------------------------------------------------------------
(* opponent_response: the response distribution, in dict order, as a       *)
(* sequence of [resp, prob] with prob in hundredths.                       *)

Dist2(a, pa, b, pb) == <<[resp |-> a, prob |-> pa], [resp |-> b, prob |-> pb]>>
Dist3(a, pa, b, pb, c, pc3) ==
    <<[resp |-> a, prob |-> pa], [resp |-> b, prob |-> pb], [resp |-> c, prob |-> pc3]>>

\* mutant: no ALL_IN override, the tables answer every action
opponent_response_no_override(our_action) ==
    IF opponent_type = "TIGHT_PASSIVE" THEN
        IF our_action \in {"BET", "RAISE"}
        THEN Dist3("FOLD", 65, "CALL", 30, "RAISE", 5)
        ELSE Dist2("CHECK", 80, "BET", 20)
    ELSE IF opponent_type = "LOOSE_AGGRESSIVE" THEN
        IF our_action \in {"BET", "RAISE"}
        THEN Dist3("FOLD", 10, "CALL", 30, "RAISE", 60)
        ELSE Dist2("CHECK", 5, "BET", 95)
    ELSE
        IF our_action \in {"BET", "RAISE"}
        THEN Dist3("FOLD", 80, "CALL", 19, "RAISE", 1)
        ELSE Dist2("CHECK", 90, "BET", 10)

\* mutant: one table entry mistyped (SCAREDY_CAT CALL 0.19 as 0.91)
opponent_response_typo(our_action) ==
    IF our_action = "ALL_IN" THEN <<[resp |-> "FOLD", prob |-> 100]>>
    ELSE IF opponent_type = "TIGHT_PASSIVE" THEN
        IF our_action \in {"BET", "RAISE"}
        THEN Dist3("FOLD", 65, "CALL", 30, "RAISE", 5)
        ELSE Dist2("CHECK", 80, "BET", 20)
    ELSE IF opponent_type = "LOOSE_AGGRESSIVE" THEN
        IF our_action \in {"BET", "RAISE"}
        THEN Dist3("FOLD", 10, "CALL", 30, "RAISE", 60)
        ELSE Dist2("CHECK", 5, "BET", 95)
    ELSE
        IF our_action \in {"BET", "RAISE"}
        THEN Dist3("FOLD", 80, "CALL", 91, "RAISE", 1)
        ELSE Dist2("CHECK", 90, "BET", 10)

opponent_response(our_action) ==
    IF our_action = "ALL_IN" THEN <<[resp |-> "FOLD", prob |-> 100]>>
    ELSE IF opponent_type = "TIGHT_PASSIVE" THEN
        IF our_action \in {"BET", "RAISE"}
        THEN Dist3("FOLD", 65, "CALL", 30, "RAISE", 5)
        ELSE Dist2("CHECK", 80, "BET", 20)
    ELSE IF opponent_type = "LOOSE_AGGRESSIVE" THEN
        IF our_action \in {"BET", "RAISE"}
        THEN Dist3("FOLD", 10, "CALL", 30, "RAISE", 60)
        ELSE Dist2("CHECK", 5, "BET", 95)
    ELSE
        IF our_action \in {"BET", "RAISE"}
        THEN Dist3("FOLD", 80, "CALL", 19, "RAISE", 1)
        ELSE Dist2("CHECK", 90, "BET", 10)

\* the labels random.choices can return: those of positive weight
Responses(our_action) ==
    LET d == opponent_response(our_action)
    IN  {d[i].resp : i \in {j \in 1..Len(d) : d[j].prob > 0}}

-----------------------------------------------------------------------------
(* estimate_equity: [ok |-> TRUE, val |-> e] for a returned equity e/6000, *)
(* [ok |-> FALSE, val |-> 0] when the call raises (IndexError, KeyError).  *)

card_ranks == <<"2", "3", "4", "5", "6", "7", "8", "9", "T", "J", "Q", "K", "A">>

\* "x" in card
Has(card, x) == \E i \in 1..Len(card) : card[i] = x

\* card_ranks.index(card[0]) / 12.0 in 1/1200ths; 0.3 when that raises
RankValue(card) ==
    IF Len(card) >= 1 /\ \E i \in 1..Len(card_ranks) : card_ranks[i] = card[1]
    THEN 100 * ((CHOOSE i \in 1..Len(card_ranks) : card_ranks[i] = card[1]) - 1)
    ELSE 360

Raised == [ok |-> FALSE, val |-> 0]
Returned(v) == [ok |-> TRUE, val |-> v]

\* the stage_factor dict, in tenths; 0 stands for a missing key
stage_factor(s) ==
    CASE s = "PREFLOP"  -> 8
      [] s = "FLOP"     -> 6
      [] s = "TURN"     -> 4
      [] s = "RIVER"    -> 2
      [] s = "SHOWDOWN" -> 10
      [] OTHER          -> 0

estimate_equity ==
    IF Len(hole_cards) < 2 THEN Raised
    ELSE LET c1 == hole_cards[1]
             c2 == hole_cards[2]
         IN
         IF Has(c1, "7") /\ Has(c2, "2") THEN Returned(300)
         ELSE IF Len(c1) < 2 \/ Len(c2) < 2 THEN Raised
         ELSE IF stage_factor(stage) = 0 THEN Raised
         ELSE LET v1 == RankValue(c1)
                  v2 == RankValue(c2)
                  base == (v1 + v2) \div 4          \* sum / len, in 1/600ths
                  suited == c1[2] = c2[2]
                  connected == Abs(v1 - v2) * 1000 <= 83 * 1200
                  bonus == IF suited /\ connected THEN 90
                           ELSE IF suited THEN 42
                           ELSE IF connected THEN 48
                           ELSE 0
                  strength == base + bonus
              IN  Returned(Max(300, Min(5700, strength * stage_factor(stage))))

-----------------------------------------------------------------------------
(* calculate_ev: [ok |-> TRUE, val |-> ev] or Raised when estimate_equity  *)
(* raises inside it.                                                       *)

\* the payoff term of one response, prob already applied
EvTerm(r, our_action, size) ==
    IF r.resp = "FOLD" THEN Returned(EvFrac(r.prob * pot, 100))
    ELSE IF r.resp = "CALL" THEN
        IF stage = "RIVER" THEN
            LET eq == estimate_equity
                win_amount == pot + 2 * size
            IN  IF ~eq.ok THEN Raised
                ELSE Returned(EvFrac(r.prob * (eq.val * win_amount
                                               - (EqDen - eq.val) * size), EvDen))
        ELSE LET penalty == IF opponent_type = "LOOSE_AGGRESSIVE" THEN 13 ELSE 10
             IN  Returned(EvFrac(r.prob * (-size * penalty), 1000))
    ELSE IF r.resp = "RAISE" THEN
        LET penalty == IF opponent_type = "LOOSE_AGGRESSIVE" THEN 15 ELSE 10
        IN  Returned(EvFrac(r.prob * (-size * penalty), 1000))
    ELSE Returned(EvZero)

RECURSIVE EvSum(_, _, _, _)
EvSum(d, i, our_action, size) ==
    IF i > Len(d) THEN Returned(EvZero)
    ELSE LET t == EvTerm(d[i], our_action, size)
             rest == EvSum(d, i + 1, our_action, size)
         IN  IF ~t.ok \/ ~rest.ok THEN Raised
             ELSE Returned(EvAdd(t.val, rest.val))

calculate_ev(our_action, size) ==
    IF our_action = "FOLD" THEN Returned(EvZero)
    ELSE EvSum(opponent_response(our_action), 1, our_action, size)

-----------------------------------------------------------------------------
(* Inputs *)

MaxStack == 20                   \* deepest stack a player is constructed with, in BB

StackChoices == {BB, 3 * BB, MaxStack * BB}
Positions == {"BTN", "SB", "BB"}

\* hole cards start_hand is given: 7d 2c, As Ks, an unknown rank token, and
\* a first card without its suit character
HandChoices ==
    { << <<"7", "d">>, <<"2", "c">> >>,
      << <<"A", "s">>, <<"K", "s">> >>,
      << <<"X", "h">>, <<"Q", "d">> >>,
      << <<"A">>, <<"K", "s">> >> }

WellFormed(cards) == Len(cards) = 2 /\ \A i \in 1..2 : Len(cards[i]) = 2

NoLocals ==
    /\ action = "FOLD" /\ bet_size = 0 /\ bet_amount = 0
    /\ resp = "" /\ resp_amount = 0
    /\ total_decision_ev = EvZero /\ decision_count = 0
    /\ result = <<>>

-----------------------------------------------------------------------------
(* __init__ : the state after construction *)

Init ==
    /\ pc = "constructed"
    /\ hands_started = 0
    /\ opponent_type \in PlayerType
    /\ \E hero_position \in Positions, hs \in StackChoices, vs \in StackChoices :
          /\ initial_stack = hs
          /\ hero_stack = CASE hero_position = "SB" -> hs - Half
                            [] hero_position = "BB" -> hs - BB
                            [] OTHER -> hs
          /\ villain_stack = CASE hero_position = "SB" -> vs - BB
                               [] hero_position = "BB" -> vs - Half
                               [] OTHER -> vs
    /\ stage = "PREFLOP"
    /\ pot = BB + Half
    /\ hole_cards = <<>>
    /\ history = <<>>
    /\ last_bet_amount = 0
    /\ decision_tree = <<>>
    /\ decision_evs = <<>>
    /\ NoLocals
    /\ call = <<>> /\ ret = <<>>

-----------------------------------------------------------------------------
(* start_hand(hero_cards, flop, turn, river); flop, turn, river say whether *)
(* the argument was supplied.                                              *)

StartStage(flop, turn, river) ==
    IF river THEN "RIVER" ELSE IF turn THEN "TURN" ELSE IF flop THEN "FLOP"
    ELSE "PREFLOP"

\* mutant: without board cards the pot is left as it stands
StartPot_keep(flop, turn, river) ==
    IF river THEN 16 * BB ELSE IF turn THEN 8 * BB ELSE IF flop THEN 4 * BB
    ELSE pot

StartPot(flop, turn, river) ==
    IF river THEN 16 * BB ELSE IF turn THEN 8 * BB ELSE IF flop THEN 4 * BB
    ELSE BB + Half

\* the assignments of start_hand, lines 59-82
start_hand_fields(hero_cards, flop, turn, river) ==
    /\ hole_cards' = hero_cards
    /\ history' = <<>>
    /\ initial_stack' = hero_stack
    /\ last_bet_amount' = 0
    /\ decision_tree' = <<>>
    /\ decision_evs' = <<>>
    /\ stage' = StartStage(flop, turn, river)
    /\ pot' = StartPot(flop, turn, river)
    /\ hands_started' = hands_started + 1
    /\ call' = <<"start_hand", flop, turn, river>>
    /\ ret' = <<>>
    /\ pc' = "started"
    /\ UNCHANGED <<opponent_type, hero_stack, villain_stack, locals>>

\* the first hand of a freshly constructed object
start_hand(hero_cards, flop, turn, river) ==
    /\ pc = "constructed"
    /\ start_hand_fields(hero_cards, flop, turn, river)

-----------------------------------------------------------------------------
(* is_bet_in_front and optimal_action *)

Last(h) == h[Len(h)]

\* mutant: any villain entry counts as a bet in front
is_bet_in_front_any ==
    /\ history # <<>>
    /\ Last(history)[1] = "VILLAIN"

is_bet_in_front ==
    /\ history # <<>>
    /\ Last(history)[1] = "VILLAIN"
    /\ Last(history)[2] \in {"BET", "RAISE"}

\* self.last_bet_amount after is_bet_in_front() has run
LastBetAfterCheck == IF is_bet_in_front THEN Last(history)[3] ELSE last_bet_amount

\* mutant: the preflop bluff sized 2.5 instead of 3.0
get_bluff_action_smaller ==
    IF stage = "PREFLOP" THEN <<"RAISE", 5 * Half>>
    ELSE IF opponent_type = "SCAREDY_CAT" THEN <<"BET", Tenths(pot, 4)>>
    ELSE IF opponent_type = "TIGHT_PASSIVE" THEN <<"BET", Tenths(pot, 6)>>
    ELSE <<"BET", Tenths(pot, 5)>>

get_bluff_action ==
    IF stage = "PREFLOP" THEN <<"RAISE", 3 * BB>>
    ELSE IF opponent_type = "SCAREDY_CAT" THEN <<"BET", Tenths(pot, 4)>>
    ELSE IF opponent_type = "TIGHT_PASSIVE" THEN <<"BET", Tenths(pot, 6)>>
    ELSE <<"BET", Tenths(pot, 5)>>

\* mutant: facing a bet, the hero folds when the draw is against a re-raise
Choice_fold(draw) ==
    IF is_bet_in_front THEN
        LET raise_amt == Min(LastBetAfterCheck * 2, hero_stack)
        IN  IF draw THEN <<"RAISE", raise_amt>> ELSE <<"FOLD", 0>>
    ELSE IF stage = "RIVER" THEN <<"BET", Min(Tenths(pot, 5), hero_stack)>>
    ELSE LET b == get_bluff_action
             size == Min(b[2], hero_stack)
         IN  IF size > 0 /\ hero_stack > 0 THEN <<b[1], size>>
             ELSE <<"CHECK", 0>>

\* mutant: facing a bet, the draw alone decides the re-raise
Choice_draw_only(draw) ==
    IF is_bet_in_front THEN
        LET call_amt == Min(LastBetAfterCheck, hero_stack)
            raise_amt == Min(LastBetAfterCheck * 2, hero_stack)
        IN  IF draw THEN <<"RAISE", raise_amt>> ELSE <<"CALL", call_amt>>
    ELSE IF stage = "RIVER" THEN <<"BET", Min(Tenths(pot, 5), hero_stack)>>
    ELSE LET b == get_bluff_action
             size == Min(b[2], hero_stack)
         IN  IF size > 0 /\ hero_stack > 0 THEN <<b[1], size>>
             ELSE <<"CHECK", 0>>

\* the (action, size) optimal_action settles on; draw is random.random() < 0.7
Choice(draw) ==
    IF is_bet_in_front THEN
        LET villain_act == Last(history)[2]
            call_amt == Min(LastBetAfterCheck, hero_stack)
            raise_amt == Min(LastBetAfterCheck * 2, hero_stack)
        IN  IF villain_act \in {"CHECK", "CALL"} /\ raise_amt > 0
            THEN <<"RAISE", raise_amt>>
            ELSE IF draw /\ raise_amt > call_amt
                 THEN <<"RAISE", raise_amt>>
                 ELSE <<"CALL", call_amt>>
    ELSE IF stage = "RIVER" THEN <<"BET", Min(Tenths(pot, 5), hero_stack)>>
    ELSE LET b == get_bluff_action
             size == Min(b[2], hero_stack)
         IN  IF size > 0 /\ hero_stack > 0 THEN <<b[1], size>>
             ELSE <<"CHECK", 0>>

\* ((action, size), ev), or Raised
optimal_action(draw) ==
    LET c == Choice(draw)
        e == calculate_ev(c[1], c[2])
    IN  IF e.ok THEN Returned(<<c, e.val>>) ELSE Raised

-----------------------------------------------------------------------------
(* execute_action, in its two halves: the hero's entry and contribution,   *)
(* then the sampled villain response.                                      *)

LogRecord(player, act, size, stack) ==
    [player |-> player, stage |-> stage, action |-> act, size |-> size,
     pot |-> pot, stack |-> stack]

\* mutant: a CALL moves no chips
HeroContribution_call_free(act, size) ==
    IF act \in {"BET", "RAISE", "ALL_IN"} THEN Min(size, hero_stack) ELSE 0

\* call_amount / bet_amount of the hero; 0 when the action moves no chips
HeroContribution(act, size) ==
    IF act \in {"CALL", "BET", "RAISE", "ALL_IN"} THEN Min(size, hero_stack) ELSE 0

\* mutant: the hero's entry replaces the history instead of extending it
execute_action_hero_overwrite ==
    /\ pc = "execute"
    /\ history' = <<<<"HERO", action, bet_size>>>>
    /\ decision_tree' = Append(decision_tree,
                               LogRecord("HERO", action, bet_size, hero_stack))
    /\ bet_amount' = HeroContribution(action, bet_size)
    /\ hero_stack' = hero_stack - bet_amount'
    /\ pot' = pot + bet_amount'
    /\ pc' = "respond"
    /\ UNCHANGED <<opponent_type, stage, villain_stack, hole_cards, initial_stack,
                   last_bet_amount, decision_evs, action, bet_size, resp,
                   resp_amount, total_decision_ev, decision_count, result, probe,
                   hands_started>>

execute_action_hero ==
    /\ pc = "execute"
    /\ history' = Append(history, <<"HERO", action, bet_size>>)
    /\ decision_tree' = Append(decision_tree,
                               LogRecord("HERO", action, bet_size, hero_stack))
    /\ bet_amount' = HeroContribution(action, bet_size)
    /\ hero_stack' = hero_stack - bet_amount'
    /\ pot' = pot + bet_amount'
    /\ pc' = "respond"
    /\ UNCHANGED <<opponent_type, stage, villain_stack, hole_cards, initial_stack,
                   last_bet_amount, decision_evs, action, bet_size, resp,
                   resp_amount, total_decision_ev, decision_count, result, probe, hands_started>>

\* mutant: the RAISE amount not clamped to the villain's stack
VillainAmount_unclamped(r, size) ==
    IF r = "CALL" THEN Min(size, villain_stack)
    ELSE IF r = "RAISE" THEN size * 2
    ELSE IF r = "BET" THEN Min(Tenths(pot, 5), villain_stack)
    ELSE 0

\* resp_amount of the villain
VillainAmount(r, size) ==
    IF r = "CALL" THEN Min(size, villain_stack)
    ELSE IF r = "RAISE" THEN Min(size * 2, villain_stack)
    ELSE IF r = "BET" THEN Min(Tenths(pot, 5), villain_stack)
    ELSE 0

\* mutant: a villain BET reaches the pot without leaving the stack
execute_action_villain_unpaid(r) ==
    /\ pc = "respond"
    /\ r \in Responses(action)
    /\ resp' = r
    /\ resp_amount' = VillainAmount(r, bet_size)
    /\ history' = Append(history, <<"VILLAIN", r, resp_amount'>>)
    /\ decision_tree' = Append(decision_tree,
                               LogRecord("VILLAIN", r, resp_amount', villain_stack))
    /\ IF r \in {"CALL", "RAISE"}
       THEN /\ villain_stack' = villain_stack - resp_amount'
            /\ pot' = pot + resp_amount'
       ELSE IF r = "BET"
       THEN /\ pot' = pot + resp_amount'
            /\ UNCHANGED villain_stack
       ELSE UNCHANGED <<villain_stack, pot>>
    /\ pc' = "update"
    /\ UNCHANGED <<opponent_type, stage, hero_stack, hole_cards, initial_stack,
                   last_bet_amount, decision_evs, action, bet_size, bet_amount,
                   total_decision_ev, decision_count, result, probe, hands_started>>

execute_action_villain(r) ==
    /\ pc = "respond"
    /\ r \in Responses(action)
    /\ resp' = r
    /\ resp_amount' = VillainAmount(r, bet_size)
    /\ history' = Append(history, <<"VILLAIN", r, resp_amount'>>)
    /\ decision_tree' = Append(decision_tree,
                               LogRecord("VILLAIN", r, resp_amount', villain_stack))
    /\ IF r \in {"CALL", "RAISE", "BET"}
       THEN /\ villain_stack' = villain_stack - resp_amount'
            /\ pot' = pot + resp_amount'
       ELSE UNCHANGED <<villain_stack, pot>>
    /\ pc' = "update"
    /\ UNCHANGED <<opponent_type, stage, hero_stack, hole_cards, initial_stack,
                   last_bet_amount, decision_evs, action, bet_size, bet_amount,
                   total_decision_ev, decision_count, result, probe, hands_started>>

-----------------------------------------------------------------------------
(* update_stage: the stage it leaves *)

update_stage ==
    IF Len(history) < 2 THEN stage
    ELSE LET prev == history[Len(history) - 1]
             last == Last(history)
         IN  IF prev[2] = "FOLD" \/ last[2] = "FOLD" THEN "TERMINAL"
             ELSE LET moved ==
                          IF prev[2] = "CHECK" /\ last[2] = "CHECK"
                          THEN NextStage(stage)
                          ELSE IF last[2] = "CALL" /\ ~is_bet_in_front
                          THEN NextStage(stage)
                          ELSE stage
                  IN  IF hero_stack = 0 \/ villain_stack = 0 THEN "SHOWDOWN"
                      ELSE moved

-----------------------------------------------------------------------------
(* simulate_hand *)

\* mutant: the loop runs on the first street only
LoopStages_preflop == {"PREFLOP"}

LoopStages == GameStage \ {"TERMINAL", "SHOWDOWN"}

simulate_hand_enter ==
    /\ pc = "started"
    /\ total_decision_ev' = EvZero
    /\ decision_count' = 0
    /\ pc' = "loop"
    /\ UNCHANGED <<object, action, bet_size, bet_amount, resp, resp_amount,
                   result, probe, hands_started>>

\* lines 454-457: optimal_action and the statistics; a raise leaves the loop
loop_decide(draw) ==
    /\ pc = "loop"
    /\ stage \in LoopStages
    /\ last_bet_amount' = LastBetAfterCheck
    /\ \E r \in {optimal_action(draw)} :
          IF r.ok
          THEN /\ action' = r.val[1][1]
               /\ bet_size' = r.val[1][2]
               /\ total_decision_ev' = EvAdd(total_decision_ev, r.val[2])
               /\ decision_count' = decision_count + 1
               /\ decision_evs' = Append(decision_evs, r.val[2])
               /\ pc' = "execute"
          ELSE /\ pc' = "resolve"
               /\ UNCHANGED <<action, bet_size, total_decision_ev, decision_count,
                              decision_evs>>
    /\ UNCHANGED <<opponent_type, stage, pot, hero_stack, villain_stack, hole_cards,
                   history, initial_stack, decision_tree, bet_amount, resp,
                   resp_amount, result, probe, hands_started>>

\* mutant: the empty stack is looked at before the fold
StageAfterChecks_stack_first ==
    IF hero_stack = 0 \/ villain_stack = 0 THEN "SHOWDOWN"
    ELSE IF resp = "FOLD" THEN "TERMINAL"
    ELSE update_stage

\* lines 469-479: update_stage, then the two forced endings
StageAfterChecks ==
    IF resp = "FOLD" THEN "TERMINAL"
    ELSE IF hero_stack = 0 \/ villain_stack = 0 THEN "SHOWDOWN"
    ELSE update_stage

loop_update ==
    /\ pc = "update"
    /\ stage' = StageAfterChecks
    /\ pc' = IF resp = "FOLD" \/ hero_stack = 0 \/ villain_stack = 0
             THEN "resolve" ELSE "loop"
    /\ UNCHANGED <<opponent_type, pot, hero_stack, villain_stack, hole_cards,
                   history, initial_stack, last_bet_amount, decision_tree,
                   decision_evs, locals, probe, hands_started>>

\* avg_ev: total / count as the pair it is the quotient of, 0 when count is 0
AvgEv == IF decision_count > 0
         THEN [sum |-> total_decision_ev, n |-> decision_count]
         ELSE [sum |-> EvZero, n |-> 1]

\* mutant: at TERMINAL the fold is looked for in the hero's entry
HeroTakes_swapped(hero_wins) ==
    IF stage = "TERMINAL"
    THEN Last(history)[1] = "HERO" /\ Last(history)[2] = "FOLD"
    ELSE hero_wins

\* who takes the pot: lines 490-497 at TERMINAL, lines 506-514 otherwise;
\* hero_wins is random.random() < hero_equity
HeroTakes(hero_wins) ==
    IF stage = "TERMINAL"
    THEN Last(history)[1] = "VILLAIN" /\ Last(history)[2] = "FOLD"
    ELSE hero_wins

\* lines 486-526
resolve(hero_wins) ==
    /\ \/ pc = "resolve"
       \/ pc = "loop" /\ stage \notin LoopStages
    /\ LET fails == IF stage = "TERMINAL" THEN history = <<>>
                    ELSE ~estimate_equity.ok
       IN  IF fails
           THEN /\ pc' = "raised"
                /\ UNCHANGED <<hero_stack, villain_stack, result>>
           ELSE /\ hero_stack' = IF HeroTakes(hero_wins) THEN hero_stack + pot
                                 ELSE hero_stack
                /\ villain_stack' = IF HeroTakes(hero_wins) THEN villain_stack
                                    ELSE villain_stack + pot
                /\ result' = <<IF HeroTakes(hero_wins) THEN "Hero" ELSE "Villain",
                               hero_stack' - initial_stack,
                               total_decision_ev, decision_count, AvgEv>>
                /\ pc' = "returned"
    /\ UNCHANGED <<opponent_type, stage, pot, hole_cards, history, initial_stack,
                   last_bet_amount, decision_tree, decision_evs, action, bet_size,
                   bet_amount, resp, resp_amount, total_decision_ev,
                   decision_count, probe, hands_started>>

-----------------------------------------------------------------------------
(* One hand of one freshly constructed model, as the batch driver plays it *)

Next ==
    \/ \E cards \in HandChoices, flop \in BOOLEAN, turn \in BOOLEAN, river \in BOOLEAN :
          start_hand(cards, flop, turn, river)
    \/ simulate_hand_enter
    \/ \E draw \in BOOLEAN : loop_decide(draw)
    \/ execute_action_hero
    \/ \E r \in {"FOLD", "CHECK", "CALL", "BET", "RAISE"} : execute_action_villain(r)
    \/ loop_update
    \/ \E hero_wins \in BOOLEAN : resolve(hero_wins)

Spec == Init /\ [][Next]_vars

\* simulate_hand runs to its end once called: nothing suspends it
FairSpec == Spec /\ WF_vars(Next)

-----------------------------------------------------------------------------
(* A second hand on the same object: start_hand called again once          *)
(* simulate_hand has returned                                              *)

MaxHands == 2                    \* start_hand calls made on one object

start_hand_again(hero_cards, flop, turn, river) ==
    /\ pc = "returned"
    /\ hands_started < MaxHands
    /\ start_hand_fields(hero_cards, flop, turn, river)

ReplayNext ==
    \/ Next
    \/ \E cards \in HandChoices, flop \in BOOLEAN, turn \in BOOLEAN, river \in BOOLEAN :
          start_hand_again(cards, flop, turn, river)

ReplaySpec == Init /\ [][ReplayNext]_vars

-----------------------------------------------------------------------------
(* Direct calls of the pure methods, on a model whose fields are given     *)

PotChoices == {0, BB + Half, 4 * BB, 16 * BB + 37}
SizeChoices == {0, 3 * BB, 7 * BB + 25}

ProbeFields ==
    /\ pc = "probe"
    /\ hands_started = 0
    /\ hero_stack = MaxStack * BB /\ villain_stack = MaxStack * BB
    /\ initial_stack = MaxStack * BB
    /\ history = <<>> /\ last_bet_amount = 0
    /\ decision_tree = <<>> /\ decision_evs = <<>>
    /\ NoLocals
    /\ call = <<>> /\ ret = <<>>

probe_opponent_response(our_action) ==
    /\ pc = "probe"
    /\ call' = <<"opponent_response", our_action>>
    /\ ret' = <<opponent_response(our_action)>>
    /\ UNCHANGED <<pc, hands_started, object, locals>>

probe_calculate_ev(our_action, size) ==
    /\ pc = "probe"
    /\ call' = <<"calculate_ev", our_action, size>>
    /\ ret' = <<calculate_ev(our_action, size)>>
    /\ UNCHANGED <<pc, hands_started, object, locals>>

probe_estimate_equity ==
    /\ pc = "probe"
    /\ call' = <<"estimate_equity">>
    /\ ret' = <<estimate_equity>>
    /\ UNCHANGED <<pc, hands_started, object, locals>>

EvInit ==
    /\ ProbeFields
    /\ opponent_type \in PlayerType
    /\ stage \in GameStage
    /\ pot \in PotChoices
    /\ hole_cards \in HandChoices

EvNext ==
    \/ \E a \in ActionType : probe_opponent_response(a)
    \/ \E a \in ActionType, size \in SizeChoices : probe_calculate_ev(a, size)

EvSpec == EvInit /\ [][EvNext]_vars

\* every two-character card: the thirteen ranks and one unknown token, four suits
RankTokens == {card_ranks[i] : i \in 1..Len(card_ranks)} \cup {"X"}
SuitTokens == {"s", "h", "d", "c"}
CardChoices == {<<r, s>> : r \in RankTokens, s \in SuitTokens}

EquityInit ==
    /\ ProbeFields
    /\ opponent_type = "TIGHT_PASSIVE"
    /\ pot = BB + Half
    /\ stage \in GameStage
    /\ hole_cards \in {<<c1, c2>> : c1 \in CardChoices, c2 \in CardChoices}

EquityNext == probe_estimate_equity

EquitySpec == EquityInit /\ [][EquityNext]_vars

-----------------------------------------------------------------------------
(* Properties *)

InHand == pc \notin {"constructed", "probe"}

FoldInLastPair(h) ==
    /\ Len(h) >= 2
    /\ h[Len(h) - 1][2] = "FOLD" \/ h[Len(h)][2] = "FOLD"

\* C1: during simulate_hand every step leaves the stage where it is, moves it
\* one rung up PREFLOP, FLOP, TURN, RIVER, SHOWDOWN, sets it to TERMINAL with a
\* FOLD among the last two history entries, or sets it to SHOWDOWN with a
\* stack at exactly 0.  The stage moves in loop_update only, once per iteration.
C1_StageForward ==
    [][InHand =>
         \/ stage' = stage
         \/ stage' # "TERMINAL" /\ StageValue(stage') = StageValue(stage) + 1
         \/ stage' = "TERMINAL" /\ FoldInLastPair(history')
         \/ stage' = "SHOWDOWN" /\ (hero_stack' = 0 \/ villain_stack' = 0)]_vars

\* a hand dealt PREFLOP that a villain CALL moved to FLOP
C1_Witness ==
    /\ pc = "loop" /\ Len(history) = 2
    /\ decision_tree[1].stage = "PREFLOP" /\ Last(history)[2] = "CALL"
    /\ stage = "FLOP"

\* C2: a hand started with both stacks positive leaves the simulate_hand loop,
\* whatever the draws, and with well-formed hole cards it leaves it in stage
\* TERMINAL or SHOWDOWN.
C2_Terminates ==
    (pc = "started" /\ hero_stack > 0 /\ villain_stack > 0)
        ~> /\ \/ pc \in {"resolve", "returned", "raised"}
              \/ pc = "loop" /\ stage \in {"TERMINAL", "SHOWDOWN"}
           /\ WellFormed(hole_cards) => stage \in {"TERMINAL", "SHOWDOWN"}

\* a hand that ended after three hero decisions
C2_Witness ==
    /\ pc = "resolve" /\ stage \in {"TERMINAL", "SHOWDOWN"}
    /\ decision_count >= 3 /\ decision_tree[1].stack > 0

\* C3: when execute_action has returned from a hero CALL, BET, RAISE or ALL_IN,
\* the pot is the pot before the hero's entry plus the hero's and the villain's
\* contributions, each between 0 and the contributor's stack just before it.
C3_PotAccounting ==
    (pc = "update" /\ action \in {"CALL", "BET", "RAISE", "ALL_IN"}) =>
        LET n == Len(decision_tree)
            hero_rec == decision_tree[n - 1]
            villain_rec == decision_tree[n]
        IN  /\ pot = hero_rec.pot + bet_amount + resp_amount
            /\ 0 <= bet_amount /\ bet_amount <= hero_rec.stack
            /\ 0 <= resp_amount /\ resp_amount <= villain_rec.stack
            /\ hero_stack = hero_rec.stack - bet_amount
            /\ villain_stack = villain_rec.stack - resp_amount

\* a hero RAISE re-raised by the villain, both putting chips in
C3_Witness ==
    /\ pc = "update" /\ action = "RAISE" /\ resp = "RAISE"
    /\ bet_amount > 0 /\ resp_amount > bet_amount

\* the amount the hero is asked for before it is clamped to the stack,
\* read when the hero's half of execute_action has run
HeroAsked ==
    LET n == Len(history)
        rec == decision_tree[Len(decision_tree)]
        facing == n >= 2 /\ history[n - 1][1] = "VILLAIN"
                         /\ history[n - 1][2] \in {"BET", "RAISE"}
    IN  IF facing
        THEN IF action = "RAISE" THEN 2 * history[n - 1][3] ELSE history[n - 1][3]
        ELSE IF rec.stage = "RIVER" THEN Tenths(rec.pot, 5)
        ELSE IF rec.stage = "PREFLOP" THEN 3 * BB
        ELSE IF opponent_type = "SCAREDY_CAT" THEN Tenths(rec.pot, 4)
        ELSE IF opponent_type = "TIGHT_PASSIVE" THEN Tenths(rec.pot, 6)
        ELSE Tenths(rec.pot, 5)

\* the amount the villain is asked for, read when execute_action has returned
VillainAsked ==
    LET rec == decision_tree[Len(decision_tree)]
    IN  IF resp = "CALL" THEN bet_size
        ELSE IF resp = "RAISE" THEN 2 * bet_size
        ELSE IF resp = "BET" THEN Tenths(rec.pot, 5)
        ELSE 0

\* C4: no stack is ever negative, and a player asked for more than the stack
\* puts in exactly the stack and is left with exactly 0.
C4_StacksClamped ==
    /\ hero_stack >= 0 /\ villain_stack >= 0
    /\ pc = "respond" =>
          LET rec == decision_tree[Len(decision_tree)]
          IN  HeroAsked > rec.stack => bet_amount = rec.stack /\ hero_stack = 0
    /\ pc = "update" =>
          LET rec == decision_tree[Len(decision_tree)]
          IN  VillainAsked > rec.stack => resp_amount = rec.stack /\ villain_stack = 0

\* the villain re-raises for more than the stack holds
C4_Witness ==
    /\ pc = "update" /\ resp = "RAISE"
    /\ VillainAsked > decision_tree[Len(decision_tree)].stack
    /\ decision_tree[Len(decision_tree)].stack > 0

\* C5: start_hand snapshots initial_stack, the hand leaves it alone, and a hand
\* that ends in TERMINAL adds the whole pot to the stack of the side that did
\* not fold (Hero exactly when the last entry is a VILLAIN FOLD), leaves the
\* other stack as it was, and returns net_profit = hero_stack - initial_stack.
C5_TerminalPayout ==
    [][/\ (pc = "constructed" /\ pc' = "started") => initial_stack' = hero_stack
       /\ InHand => initial_stack' = initial_stack
       /\ (InHand /\ stage = "TERMINAL" /\ pc # "returned" /\ pc' = "returned") =>
             /\ IF Last(history)[1] = "VILLAIN" /\ Last(history)[2] = "FOLD"
                THEN /\ hero_stack' = hero_stack + pot
                     /\ villain_stack' = villain_stack
                     /\ result'[1] = "Hero"
                ELSE /\ villain_stack' = villain_stack + pot
                     /\ hero_stack' = hero_stack
                     /\ result'[1] = "Villain"
             /\ result'[2] = hero_stack' - initial_stack]_vars

\* a hand the villain folded after calling once: Hero holds more than at the start
C5_Witness ==
    /\ pc = "returned" /\ stage = "TERMINAL"
    /\ result[1] = "Hero" /\ Len(history) >= 4
    /\ result[2] = hero_stack - initial_stack

\* the loop was left while the stage is still a street: only the except clause
\* of simulate_hand does that
DecisionFailed ==
    /\ pc \in {"resolve", "returned", "raised"}
    /\ stage \in {"PREFLOP", "FLOP", "TURN", "RIVER"}

\* C6: when a decision step fails, simulate_hand still returns its tuple: no
\* exception leaves simulate_hand.
C6_FailureReturns == DecisionFailed => pc # "raised"

\* C7: Scenario A.  Against SCAREDY_CAT, PREFLOP, pot 1.5, no history and a
\* hero stack of at least 3, optimal_action chooses RAISE 3.0 with EV 0.60.
C7_ScenarioA ==
    (/\ pc = "execute" /\ opponent_type = "SCAREDY_CAT" /\ stage = "PREFLOP"
     /\ pot = BB + Half /\ history = <<>> /\ hero_stack >= 3 * BB) =>
        /\ action = "RAISE" /\ bet_size = 3 * BB
        /\ Last(decision_evs) = [q |-> (6 * BB) \div 10, r |-> 0]

\* Scenario A has been decided, with 7d 2c in hand
C7_Witness ==
    /\ pc = "execute" /\ opponent_type = "SCAREDY_CAT" /\ stage = "PREFLOP"
    /\ history = <<>> /\ hero_stack >= 3 * BB /\ decision_count = 1
    /\ hole_cards = << <<"7", "d">>, <<"2", "c">> >>

\* C8: Scenario B.  calculate_ev(ALL_IN, size) returns the pot, whatever the
\* archetype, stage, pot and size.
C8_AllInEv ==
    (Len(call) = 3 /\ call[1] = "calculate_ev" /\ call[2] = "ALL_IN") =>
        ret[1] = Returned([q |-> pot, r |-> 0])

\* ALL_IN priced on the RIVER against LOOSE_AGGRESSIVE with chips in the pot
C8_Witness ==
    /\ Len(call) = 3 /\ call[1] = "calculate_ev" /\ call[2] = "ALL_IN"
    /\ call[3] > 0 /\ pot > 16 * BB /\ stage = "RIVER"
    /\ opponent_type = "LOOSE_AGGRESSIVE"

RECURSIVE ProbSum(_, _)
ProbSum(d, i) == IF i > Len(d) THEN 0 ELSE d[i].prob + ProbSum(d, i + 1)

\* C9: opponent_response returns a non-empty distribution whose probabilities
\* lie in [0, 1] and add up to 1.0 (100 hundredths).
C9_DistSumsToOne ==
    (Len(call) = 2 /\ call[1] = "opponent_response") =>
        /\ Len(ret[1]) >= 1
        /\ \A i \in 1..Len(ret[1]) : ret[1][i].prob >= 0 /\ ret[1][i].prob <= 100
        /\ ProbSum(ret[1], 1) = 100

\* the three-way answer of SCAREDY_CAT to a RAISE
C9_Witness ==
    /\ Len(call) = 2 /\ call[1] = "opponent_response" /\ call[2] = "RAISE"
    /\ opponent_type = "SCAREDY_CAT" /\ Len(ret[1]) = 3

\* C10: estimate_equity returns a value in [0.05, 0.95] for any two
\* two-character hole cards and any stage; it never raises.
C10_EquityInRange ==
    call = <<"estimate_equity">> =>
        /\ ret[1].ok
        /\ ret[1].val >= EqDen \div 20
        /\ ret[1].val <= EqDen - EqDen \div 20

\* C11: every record of the decision log holds the pot and the actor's stack
\* as they are after the recorded action's contribution.
C11_LogHoldsAfter ==
    /\ pc = "respond" =>
          /\ Last(decision_tree).pot = pot
          /\ Last(decision_tree).stack = hero_stack
    /\ pc = "update" =>
          /\ Last(decision_tree).pot = pot
          /\ Last(decision_tree).stack = villain_stack

\* C12: after start_hand the stage is the latest street whose board argument
\* was supplied and the pot is that street's constant (1.5, 4, 8, 16), on the
\* first hand and on a hand started after another has been played.
C12_StartPot ==
    pc = "started" =>
        /\ call[1] = "start_hand"
        /\ LET flop == call[2]
               turn == call[3]
               river == call[4]
           IN  /\ river => stage = "RIVER" /\ pot = 16 * BB
               /\ (turn /\ ~river) => stage = "TURN" /\ pot = 8 * BB
               /\ (flop /\ ~turn /\ ~river) => stage = "FLOP" /\ pot = 4 * BB
               /\ (~flop /\ ~turn /\ ~river) =>
                      stage = "PREFLOP" /\ pot = BB + Half

\* a second hand started PREFLOP after a hand of two decisions, the stacks no
\* longer those of the construction
C12_Witness ==
    /\ pc = "started" /\ hands_started = 2 /\ stage = "PREFLOP"
    /\ result # <<>> /\ result[4] >= 2 /\ result[2] # 0

RECURSIVE HistorySum(_, _)
\* the amounts recorded in history, from entry i on
HistorySum(h, i) == IF i > Len(h) THEN 0 ELSE h[i][3] + HistorySum(h, i + 1)

\* C13 as stated: at every point of a hand the pot equals the sum of the
\* amounts recorded in history.
C13_PotIsHistorySum ==
    InHand => pot = HistorySum(history, 1)

\* C13 amended: at every point of a hand the pot equals the starting pot of
\* the street the hand was started on plus the sum of the amounts recorded
\* in history.
C13_PotIsSeedPlusHistory ==
    InHand => pot = StartPot(call[2], call[3], call[4]) + HistorySum(history, 1)

\* the hero has called a villain bet and the villain has bet again
C13_Witness ==
    /\ pc = "update" /\ action = "CALL" /\ bet_amount > 0
    /\ resp = "BET" /\ resp_amount > 0 /\ Len(history) >= 4

\* C14: when update_stage runs after a hero CALL that the villain answered
\* with neither FOLD nor BET nor RAISE, both stacks still holding chips, the
\* stage moves up exactly one rung of PREFLOP, FLOP, TURN, RIVER, SHOWDOWN.
C14_HeroCallAdvances ==
    [][(/\ pc = "update" /\ action = "CALL"
        /\ resp \notin {"FOLD", "BET", "RAISE"}
        /\ hero_stack > 0 /\ villain_stack > 0) =>
           /\ stage' # "TERMINAL"
           /\ StageValue(stage') = StageValue(stage) + 1]_vars

\* C15: whenever update_stage runs on at least two history entries with a
\* stack at exactly 0, the stage it leaves is SHOWDOWN, a FOLD among the last
\* two entries included.
C15_EmptyStackShowdown ==
    (/\ pc = "update" /\ Len(history) >= 2
     /\ (hero_stack = 0 \/ villain_stack = 0)) =>
        update_stage = "SHOWDOWN"

\* C16: in the loop a villain FOLD ends the hand in TERMINAL, a stack at 0
\* included; any other response that leaves a stack at 0 ends it in SHOWDOWN;
\* either way the loop is left, and once it is left no history entry, log
\* record or hero decision is added and the stage stays.
C16_ForcedEndings ==
    [][/\ (pc = "update" /\ resp = "FOLD") =>
             stage' = "TERMINAL" /\ pc' = "resolve"
       /\ (pc = "update" /\ resp # "FOLD"
            /\ (hero_stack = 0 \/ villain_stack = 0)) =>
             stage' = "SHOWDOWN" /\ pc' = "resolve"
       /\ pc \in {"resolve", "returned", "raised"} =>
             /\ pc' \in {"resolve", "returned", "raised"}
             /\ history' = history /\ decision_tree' = decision_tree
             /\ decision_evs' = decision_evs
             /\ decision_count' = decision_count
             /\ stage' = stage]_vars

\* the villain folded to a raise that took the hero's last chips
C16_Witness ==
    /\ pc = "resolve" /\ resp = "FOLD" /\ stage = "TERMINAL"
    /\ hero_stack = 0 /\ bet_amount > 0

\* C17: facing a villain BET or RAISE of b, optimal_action returns RAISE of
\* min(2b, hero_stack), and then only if that is more than min(b, hero_stack),
\* or CALL of min(b, hero_stack); never FOLD, CHECK or BET.
C17_FacingBet ==
    (/\ pc = "execute" /\ history # <<>>
     /\ Last(history)[1] = "VILLAIN" /\ Last(history)[2] \in {"BET", "RAISE"}) =>
        LET b == Last(history)[3]
        IN  \/ /\ action = "RAISE" /\ bet_size = Min(2 * b, hero_stack)
               /\ Min(2 * b, hero_stack) > Min(b, hero_stack)
            \/ action = "CALL" /\ bet_size = Min(b, hero_stack)

\* the hero faces a bet of at least the whole stack: only CALL is left
C17_Witness ==
    /\ pc = "execute" /\ history # <<>>
    /\ Last(history)[1] = "VILLAIN" /\ Last(history)[2] \in {"BET", "RAISE"}
    /\ Last(history)[3] >= hero_stack /\ hero_stack > 0
    /\ action = "CALL" /\ bet_size = hero_stack

\* C18: start_hand called again after a hand restores every field to its
\* hand-start value: history, log, decision EVs and last bet amount empty,
\* the pot and stage those of the street started on, and both stacks what
\* they were before the previous hand (the hero's is initial_stack, the
\* villain's the stack logged with the villain's first entry).
C18_ResetBetweenHands ==
    [][(pc = "returned" /\ pc' = "started") =>
          /\ history' = <<>> /\ decision_tree' = <<>> /\ decision_evs' = <<>>
          /\ last_bet_amount' = 0
          /\ stage' \in {"PREFLOP", "FLOP", "TURN", "RIVER"}
          /\ pot' \in {BB + Half, 4 * BB, 8 * BB, 16 * BB}
          /\ hero_stack' = initial_stack
          /\ Len(decision_tree) >= 2 => villain_stack' = decision_tree[2].stack]_vars

\* C19: estimate_equity returns exactly 0.05 for every hand of one 7 and one
\* 2, in either order, whatever the suits and the stage.
C19_SevenTwoPinned ==
    (/\ call = <<"estimate_equity">>
     /\ {hole_cards[1][1], hole_cards[2][1]} = {"7", "2"}) =>
        ret[1] = Returned(EqDen \div 20)

\* a is b or a beginning of b
IsPrefix(a, b) == Len(a) <= Len(b) /\ \A i \in 1..Len(a) : b[i] = a[i]

\* C20: during a hand history, decision log and decision EVs only grow at the
\* end; history alternates HERO, VILLAIN from its first entry; the log has as
\* many records as history has entries and decision_evs one value per
\* decision; between iterations and after the loop history has two entries
\* per decision; the returned decision count is that number of decisions.
C20_HistoryAlternates ==
    [][InHand' =>
          /\ Len(decision_tree') = Len(history')
          /\ Len(decision_evs') = decision_count'
          /\ \A i \in 1..Len(history') :
                 history'[i][1] = IF i % 2 = 1 THEN "HERO" ELSE "VILLAIN"
          /\ pc' \in {"loop", "resolve", "returned", "raised"} =>
                 Len(history') = 2 * decision_count'
          /\ pc' = "returned" => result'[4] = decision_count'
          /\ InHand =>
                 /\ IsPrefix(history, history')
                 /\ IsPrefix(decision_tree, decision_tree')
                 /\ IsPrefix(decision_evs, decision_evs')]_vars

\* a hand returned after three iterations
C20_Witness ==
    /\ pc = "returned" /\ result[4] = 3 /\ Len(history) = 6
    /\ Len(decision_tree) = 6 /\ Len(decision_evs) = 3

\* the chips in play: both stacks as they were at start_hand (the hero's is
\* initial_stack, the villain's the stack logged with the villain's first
\* entry) and the starting pot of the street the hand was started on
StartChips ==
    initial_stack + decision_tree[2].stack + StartPot(call[2], call[3], call[4])

\* C21: every step of the simulate_hand loop leaves hero_stack +
\* villain_stack + pot unchanged; the resolution gives the pot to exactly one
\* player, and when simulate_hand has returned hero_stack + villain_stack is
\* the two stacks at start_hand plus the starting pot.
C21_ChipsConserved ==
    [][/\ (InHand /\ pc' # "returned") =>
             hero_stack' + villain_stack' + pot' = hero_stack + villain_stack + pot
       /\ (InHand /\ pc # "returned" /\ pc' = "returned") =>
             /\ pot' = pot
             /\ \/ hero_stack' = hero_stack + pot /\ villain_stack' = villain_stack
                \/ hero_stack' = hero_stack /\ villain_stack' = villain_stack + pot
             /\ hero_stack' + villain_stack' = StartChips']_vars

\* a returned hand in which both players put chips in on two streets
C21_Witness ==
    /\ pc = "returned" /\ Len(history) >= 4
    /\ history[2][3] > 0 /\ history[3][3] > 0 /\ history[4][3] > 0
    /\ decision_tree[1].stage # decision_tree[3].stage

\* C22: optimal_action never returns FOLD, the stage is TERMINAL only with a
\* VILLAIN FOLD as the last entry, and of the hands started with both stacks
\* positive every one that ends TERMINAL is won by Hero with net_profit at
\* least the starting pot, and every one won by Villain ends in SHOWDOWN with
\* net_profit below 0.
C22_HeroNeverFolds ==
    /\ pc = "execute" => action # "FOLD"
    /\ InHand =>
          \A i \in 1..Len(history) :
             history[i][1] = "HERO" => history[i][2] # "FOLD"
    /\ (InHand /\ stage = "TERMINAL") =>
          /\ history # <<>>
          /\ Last(history)[1] = "VILLAIN" /\ Last(history)[2] = "FOLD"
    /\ (/\ pc = "returned" /\ initial_stack > 0
        /\ Len(decision_tree) >= 2 /\ decision_tree[2].stack > 0) =>
          LET seed == StartPot(call[2], call[3], call[4])
          IN  /\ seed > 0
              /\ stage = "TERMINAL" => result[1] = "Hero" /\ result[2] >= seed
              /\ result[1] = "Villain" => stage = "SHOWDOWN" /\ result[2] < 0

\* a hand started with chips on both sides that Villain won at showdown
C22_Witness ==
    /\ pc = "returned" /\ result[1] = "Villain" /\ stage = "SHOWDOWN"
    /\ result[2] < 0 /\ initial_stack > 0 /\ decision_tree[2].stack > 0
    /\ Len(history) >= 4

====
